---- MODULE Spec2Model ----
(***************************************************************************)
(* Model of the video-transcriber pipeline: the task store                 *)
(* (services/task_service.py), the per-file pipeline and the batch runner  *)
(* (services/transcription_service.py, core/engine.py), the model loader   *)
(* (core/sensevoice_transcriber.py) and the audio chunker                  *)
(* (utils/audio/chunking.py).                                              *)
(*                                                                         *)
(* Times are whole seconds.  Progress values are kept in hundredths of a   *)
(* percent (100% = 10000) so that 10 + p * 0.4 and 50 + p * 0.45 stay      *)
(* integers.                                                               *)
(***************************************************************************)
EXTENDS Integers, Sequences, FiniteSets, TLC

VARIABLES
    \* ---- utils/audio/chunking.py ----
    chunker,        \* AudioChunker fields and the duration of the audio at hand
    chunks,         \* value returned by split_audio, or None
    chunk_files,    \* chunk_<i>.wav files split_audio left in temp_dir
    chunk_results,  \* the list handed to merge_results (mutated in place by it)
    merged,         \* value returned by merge_results, or None
    \* ---- core/sensevoice_transcriber.py: one shared SenseVoiceTranscriber ----
    model,          \* self.model: 0 for None, else the id of the loaded instance
    model_loaded,   \* self._model_loaded
    model_lock,     \* holder of self.model_lock (a threading.Lock), 0 when free
    lpc,            \* position of every caller of transcribe_audio
    loop_of,        \* the event loop (thread) every caller's coroutine runs on
    running,        \* per event loop: the coroutine that holds the thread, or 0
    load_future,    \* per caller: state of its run_in_executor(_load_model_sync)
    load_calls,     \* executions of _load_model_sync so far
    load_fails,     \* executions of _load_model_sync that raised
    used,           \* per caller: the model instance its inference ran on
    \* ---- services/task_service.py, services/transcription_service.py ----
    tasks,          \* TaskService.tasks: task id -> TaskInfo
    tasks_by_status,\* TaskService.tasks_by_status: status -> list of task ids
    pc,             \* position of every file's process_single / transcribe_file
    events,         \* per job: the progress values handed to progress_callback
    files,          \* temp files on disk: <<job, "audio">>, <<job, "chunk", i>>
    semaphore,      \* value of the asyncio.Semaphore of transcribe_batch
    max_concurrent, \* the max_concurrent of the running batch
    job_chunks,     \* per job: chunk list of _transcribe_with_chunking
    cancel_req,     \* per job: CANCELLED was requested while it was not terminal
    api_calls,      \* update_task_status calls made by other clients so far
    status_reports, \* the batch status reports handed to the batch progress
                    \* callback by the latest step that reported progress
    stats,          \* TaskService.stats: total_success and total_failed
    late,           \* per job: its wall-clock running time has passed its timeout
    batch_tasks,    \* TaskService.batch_tasks: batch id -> BatchTaskInfo
    batch_updates,  \* update_batch_task calls made so far
    \* ---- core/engine.py: process_batch_urls ----
    engine_batch,   \* the BatchTaskInfo of the running URL batch, or None
    url_pc,         \* position of every process_single_url
    url_sem,        \* value of the asyncio.Semaphore of process_batch_urls
    url_limit,      \* the max_concurrent of the URL batch
    \* ---- core/transcriber.py: one transcribe_audio_with_chunking call ----
    wh_pc,          \* position of the call
    wh_total,       \* total_chunks = len(chunks)
    wh_index,       \* the chunk the loop is at (from 1)
    wh_attempt,     \* attempt of retry_on_exception's loop for that chunk
    wh_calls,       \* per chunk: backend calls (_sync_transcribe) made for it
    wh_fallback,    \* backend calls made by the fallback on the whole file
    wh_exhausted,   \* chunks whose every attempt failed with a retried error
    wh_outcome,     \* "none", "result" (returned) or "raised"
    \* ---- api/websocket.py: one handle_transcribe_request on one socket ----
    ws_pc,          \* position of the handler coroutine
    ws_suspended,   \* the handler is suspended at an await of the pipeline
    ws_ready,       \* send_message tasks created and not yet run, oldest first
    ws_delivered,   \* messages written to the socket, in order
    ws_seq,         \* progress events the pipeline has emitted so far
    \* ---- api/websocket.py: one send_to_task_subscribers call ----
    task_subscribers, \* ws_manager.task_subscriptions[task_id]
    pub_pc,         \* position of the publisher in send_to_task_subscribers
    pub_order,      \* the order in which the for loop visits the copied set
    pub_cursor,     \* index in pub_order of the subscriber being sent to
    pub_stalled,    \* subscribers whose socket does not take a write now
    pub_received,   \* subscribers the message was written to
    pub_disconnected, \* the local set "disconnected"
    \* ---- services/task_service.py: cleanup_old_tasks and the clock ----
    now,            \* datetime.now(), in hours
    completed_time, \* per job: the value of completed_at once it is set
    batch_created,  \* per batch: created_at
    retention,      \* older_than_hours of the latest sweep
    sweeps,         \* cleanup_old_tasks calls made so far
    \* ---- core/sensevoice_transcriber.py: _clean_special_tokens ----
    clean_special_tokens, \* self.clean_special_tokens
    text,           \* the text handed to _clean_special_tokens
    cleaned,        \* the value it returned, or None
    cleaned_again,  \* the value returned for that value, or None
    \* ---- api/websocket.py: WebSocketManager ----
    active_connections, \* self.active_connections
    task_subscriptions, \* self.task_subscriptions: task id -> set of sockets
    last_op,        \* the latest operation on the manager and its socket
    \* ---- api/routes/transcribe.py: one POST /batch request ----
    request,        \* len(files) and max_concurrent of the request
    route_pc,       \* position of the handler
    saved_files,    \* the list saved_files
    files_written,  \* uploaded files written to temp_dir so far
    jobs_created,   \* jobs created by service.transcribe_batch
    response        \* HTTP status of the response, 0 while there is none

chunkVars == <<chunker, chunks, chunk_files, chunk_results, merged>>
loadVars == <<model, model_loaded, model_lock, lpc, loop_of, running,
              load_future, load_calls, load_fails, used>>
jobVars == <<tasks, tasks_by_status, pc, events, files, semaphore,
             max_concurrent, job_chunks, cancel_req, api_calls,
             status_reports>>
batchVars == <<batch_tasks, batch_updates, engine_batch, url_pc, url_sem,
               url_limit>>
timeVars == <<stats, late>>
whisperVars == <<wh_pc, wh_total, wh_index, wh_attempt, wh_calls, wh_fallback,
                 wh_exhausted, wh_outcome>>
wsVars == <<ws_pc, ws_suspended, ws_ready, ws_delivered, ws_seq>>
pubVars == <<task_subscribers, pub_pc, pub_order, pub_cursor, pub_stalled,
             pub_received, pub_disconnected>>
evictVars == <<now, completed_time, batch_created, retention, sweeps>>
cleanVars == <<clean_special_tokens, text, cleaned, cleaned_again>>
connVars == <<active_connections, task_subscriptions, last_op>>
routeVars == <<request, route_pc, saved_files, files_written, jobs_created,
               response>>
moreVars == <<evictVars, cleanVars, connVars, routeVars>>
extVars == <<timeVars, whisperVars, wsVars, pubVars, moreVars>>
vars == <<chunkVars, loadVars, jobVars, batchVars, extVars>>

\* Optional values: None before an operation has produced its value,
\* Some(v) afterwards.
None == << >>
Some(v) == << v >>
IsSome(o) == Len(o) = 1
Val(o) == o[1]

Min(a, b) == IF a < b THEN a ELSE b

\* --------------------------------------------------------------------------
\* Bounds of the chunker inputs
\* --------------------------------------------------------------------------
MaxDuration == 1000
MaxChunks == 2
MaxSegs == 2

\* chunk_duration: 180 is the SenseVoiceTranscriber default, 300 the
\* AudioChunker / settings default; 400 is a value above the hard-coded 300.
ChunkDurations == {180, 300, 400}
Overlaps == {0, 1, 2}
MinDurations == {300, 600}

\* the literal of "if end_time - start_time < 300"
MinChunkLen == 300

\* --------------------------------------------------------------------------
\* AudioChunker.split_audio
\* --------------------------------------------------------------------------
should_chunk(c) == c.duration > c.min_duration_for_chunking

WholeFile(c) == << [path |-> "orig", start |-> 0, end |-> c.duration] >>

\* The while loop of split_audio, from the iteration that begins at
\* start_time with the chunks collected so far.
RECURSIVE SplitLoop(_, _, _)
SplitLoop(c, start_time, acc) ==
    IF ~(start_time < c.duration) THEN acc
    ELSE LET end_time == Min(start_time + c.chunk_duration, c.duration) IN
         IF end_time - start_time < MinChunkLen THEN acc
         ELSE LET acc2 == Append(acc, [path  |-> Len(acc),
                                        start |-> start_time,
                                        end   |-> end_time]) IN
              IF end_time >= c.duration - 1 THEN acc2
              ELSE SplitLoop(c, end_time - c.overlap, acc2)

\* split_audio when every ffmpeg call succeeds
split_audio(c) ==
    IF ~should_chunk(c) THEN WholeFile(c) ELSE SplitLoop(c, 0, << >>)

\* split_audio: fail_at = 0 when every ffmpeg call succeeds; fail_at = k when
\* the ffmpeg call for the k-th chunk fails, which the except clause turns
\* into "return the original file".  The files of the chunks cut before the
\* failure stay in temp_dir.
SplitOutcome(c, fail_at) ==
    LET all == split_audio(c) IN
    IF fail_at = 0
    THEN [chunks |-> all,
          files  |-> IF should_chunk(c)
                     THEN {all[i].path : i \in 1..Len(all)} ELSE {}]
    ELSE [chunks |-> WholeFile(c),
          files  |-> {all[i].path : i \in 1..(fail_at - 1)}]

\* --------------------------------------------------------------------------
\* AudioChunker.merge_results
\* --------------------------------------------------------------------------
\* Texts are sequences of tokens; " ".join(parts) is their concatenation.
RECURSIVE Join(_)
Join(parts) == IF parts = << >> THEN << >> ELSE Head(parts) \o Join(Tail(parts))

ShiftSegs(segs, off) ==
    [k \in 1..Len(segs) |->
        [segs[k] EXCEPT !.start = @ + off, !.end = @ + off]]

SegTexts(segs) ==
    [k \in 1..Len(segs) |-> segs[k].text]

\* time_offset at the top of iteration i of the for loop
RECURSIVE TimeOffset(_, _, _)
TimeOffset(cr, overlap_seconds, i) ==
    IF i <= 1 THEN 0
    ELSE TimeOffset(cr, overlap_seconds, i - 1)
         + (cr[i - 1].end_time - cr[i - 1].start_time) - overlap_seconds

\* the segments of chunk i as the loop leaves them in the caller's list
ShiftedChunk(cr, overlap_seconds, i) ==
    IF i = 1 THEN cr[i]
    ELSE [cr[i] EXCEPT
            !.segments = ShiftSegs(@, TimeOffset(cr, overlap_seconds, i))]

\* what iteration i appends to merged_segments
SegmentsToAdd(cr, overlap_seconds, i) ==
    LET segs == ShiftedChunk(cr, overlap_seconds, i).segments IN
    IF i = 1 THEN segs
    ELSE IF Len(segs) > 1 THEN Tail(segs) ELSE << >>

\* what iteration i appends to merged_text (a list of texts)
TextToAdd(cr, overlap_seconds, i) ==
    IF i = 1
    THEN IF cr[1].text # << >> THEN << cr[1].text >> ELSE << >>
    ELSE SelectSeq(SegTexts(SegmentsToAdd(cr, overlap_seconds, i)),
                   LAMBDA t : t # << >>)

RECURSIVE MergedSegments(_, _, _)
MergedSegments(cr, overlap_seconds, n) ==
    IF n = 0 THEN << >>
    ELSE MergedSegments(cr, overlap_seconds, n - 1)
         \o SegmentsToAdd(cr, overlap_seconds, n)

RECURSIVE MergedText(_, _, _)
MergedText(cr, overlap_seconds, n) ==
    IF n = 0 THEN << >>
    ELSE MergedText(cr, overlap_seconds, n - 1)
         \o TextToAdd(cr, overlap_seconds, n)

\* the dict returned by merge_results, reduced to its text and segments
merge_results(cr, overlap_seconds) ==
    IF cr = << >> THEN [text |-> << >>, segments |-> << >>]
    ELSE IF Len(cr) = 1
    THEN [text |-> cr[1].text, segments |-> cr[1].segments]
    ELSE [text     |-> Join(MergedText(cr, overlap_seconds, Len(cr))),
          segments |-> MergedSegments(cr, overlap_seconds, Len(cr))]

\* the caller's list after the call: the loop rewrites seg["start"] and
\* seg["end"] of every later chunk in place
ResultsAfterMerge(cr, overlap_seconds) ==
    IF Len(cr) <= 1 THEN cr
    ELSE [i \in 1..Len(cr) |-> ShiftedChunk(cr, overlap_seconds, i)]


\* --------------------------------------------------------------------------
\* Task store and per-file pipeline
\* --------------------------------------------------------------------------
NumJobs == 2
MaxConcurrent == 2
MaxJobChunks == 2
MaxApiCalls == 1

Jobs == 1..NumJobs

\* models/schemas.py TaskStatus
Statuses == {"pending", "extracting", "transcribing", "completed", "failed",
             "cancelled"}
TerminalStatuses == {"completed", "failed", "cancelled"}

\* progress_callback(task_id, 100, ...) and task_info.progress = 100
FullProgress == 10000

NoChunks == [n |-> 0, idx |-> 0, listed |-> {}, lost |-> FALSE]

NumUrls == 2
Urls == 1..NumUrls

BatchIdle ==
    /\ batch_tasks = << >>
    /\ batch_updates = 0
    /\ engine_batch = None
    /\ url_pc = [u \in Urls |-> "absent"]
    /\ url_sem = 0
    /\ url_limit = 0

JobOnly ==
    /\ tasks = << >>
    /\ tasks_by_status = [st \in Statuses |-> << >>]
    /\ pc = [j \in Jobs |-> "done"]
    /\ events = [j \in Jobs |-> << >>]
    /\ files = {}
    /\ semaphore = 0
    /\ max_concurrent = 0
    /\ job_chunks = [j \in Jobs |-> NoChunks]
    /\ cancel_req = [j \in Jobs |-> FALSE]
    /\ api_calls = 0
    /\ status_reports = {}

JobIdle == BatchIdle /\ JobOnly

\* TaskService.__init__: the statistics counters; no job has run yet
TimeIdle ==
    /\ stats = [total_success |-> 0, total_failed |-> 0]
    /\ late = [j \in Jobs |-> FALSE]

\* chunks of one transcribe_audio_with_chunking call
MaxWhChunks == 3
WhChunks == 1..MaxWhChunks

\* transcribe_audio_with_chunking has not been called
WhisperIdle ==
    /\ wh_pc = "idle"
    /\ wh_total = 0
    /\ wh_index = 0
    /\ wh_attempt = 0
    /\ wh_calls = [c \in WhChunks |-> 0]
    /\ wh_fallback = 0
    /\ wh_exhausted = {}
    /\ wh_outcome = "none"

\* no transcribe request has arrived on the socket
WsIdle ==
    /\ ws_pc = "idle"
    /\ ws_suspended = FALSE
    /\ ws_ready = << >>
    /\ ws_delivered = << >>
    /\ ws_seq = 0

\* no subscriber and no broadcast under way
PubIdle ==
    /\ task_subscribers = {}
    /\ pub_pc = "idle"
    /\ pub_order = << >>
    /\ pub_cursor = 0
    /\ pub_stalled = {}
    /\ pub_received = {}
    /\ pub_disconnected = {}

\* the clock at its origin, no sweep made
EvictIdle ==
    /\ now = 0
    /\ completed_time = [j \in Jobs |-> 0]
    /\ batch_created = << >>
    /\ retention = 0
    /\ sweeps = 0

\* _clean_special_tokens has not been called
CleanIdle ==
    /\ clean_special_tokens = TRUE
    /\ text = << >>
    /\ cleaned = None
    /\ cleaned_again = None

\* WebSocketManager.__init__: no connection, no subscription
ConnIdle ==
    /\ active_connections = {}
    /\ task_subscriptions = << >>
    /\ last_op = [op |-> "none", socket |-> 0, tasks |-> {}, raised |-> FALSE]

\* no batch request has arrived
RouteIdle ==
    /\ request = [files |-> 0, max_concurrent |-> 0]
    /\ route_pc = "idle"
    /\ saved_files = << >>
    /\ files_written = 0
    /\ jobs_created = 0
    /\ response = 0

MoreIdle == EvictIdle /\ CleanIdle /\ ConnIdle /\ RouteIdle

ExtIdle == TimeIdle /\ WhisperIdle /\ WsIdle /\ PubIdle /\ MoreIdle

\* the chunker with no audio at hand (state of the other specifications)
NoAudio == [duration |-> 0, chunk_duration |-> 300, overlap |-> 0,
            min_duration_for_chunking |-> 600]

ChunkIdle ==
    /\ chunker = NoAudio
    /\ chunks = None
    /\ chunk_files = {}
    /\ chunk_results = << >>
    /\ merged = None

\* --------------------------------------------------------------------------
\* SenseVoiceTranscriber.load_model / transcribe_audio: N callers of one
\* transcriber.  Coroutines of one event loop share that loop's thread and
\* switch only at an await; callers on different loops run in parallel.
\* --------------------------------------------------------------------------
NumCallers == 3
NumLoops == 2

Callers == 1..NumCallers
Loops == 1..NumLoops

LoadOnly ==
    /\ model = 0
    /\ model_loaded = FALSE
    /\ model_lock = 0
    /\ lpc = [c \in Callers |-> "done"]
    /\ loop_of = [c \in Callers |-> 1]
    /\ running = [l \in Loops |-> 0]
    /\ load_future = [c \in Callers |-> "none"]
    /\ load_calls = 0
    /\ load_fails = 0
    /\ used = [c \in Callers |-> 0]

LoadIdle == LoadOnly /\ JobIdle

InitLoad ==
    /\ ChunkIdle
    /\ JobIdle
    /\ ExtIdle
    /\ model = 0
    /\ model_loaded = FALSE
    /\ model_lock = 0
    /\ lpc = [c \in Callers |-> "start"]
    /\ loop_of \in [Callers -> Loops]
    /\ running = [l \in Loops |-> 0]
    /\ load_future = [c \in Callers |-> "none"]
    /\ load_calls = 0
    /\ load_fails = 0
    /\ used = [c \in Callers |-> 0]

\* the thread of c's loop is free for c to start or resume on
LoopFree(c) == running[loop_of[c]] = 0
\* c is the coroutine executing on its loop's thread
OnThread(c) == running[loop_of[c]] = c

AlreadyLoaded_Unchecked == FALSE

\* load_model, the test under the lock:
\* "if self._model_loaded and self.model is not None: return"
AlreadyLoaded == model_loaded /\ model # 0

\* transcribe_audio up to "if self.model is None: await self.load_model()"
CheckModel(c) ==
    /\ lpc[c] = "start"
    /\ LoopFree(c)
    /\ running' = [running EXCEPT ![loop_of[c]] = c]
    /\ lpc' = [lpc EXCEPT ![c] = IF model = 0 THEN "acquire" ELSE "use"]
    /\ UNCHANGED <<model, model_loaded, model_lock, loop_of, load_future,
                   load_calls, load_fails, used>>
    /\ UNCHANGED <<chunkVars, jobVars, batchVars, extVars>>

\* load_model: "with self.model_lock:" is a blocking acquire on the loop's
\* thread; while the lock is held elsewhere this step is disabled and c keeps
\* the thread.  Once inside, either return at once (already loaded) or hand
\* _load_model_sync to the executor and suspend at the await, lock still held.
AcquireLock(c) ==
    /\ lpc[c] = "acquire"
    /\ OnThread(c)
    /\ model_lock = 0
    /\ IF AlreadyLoaded
       THEN /\ lpc' = [lpc EXCEPT ![c] = "use"]
            /\ UNCHANGED <<model_lock, running, load_future>>
       ELSE /\ model_lock' = c
            /\ lpc' = [lpc EXCEPT ![c] = "awaiting"]
            /\ load_future' = [load_future EXCEPT ![c] = "pending"]
            /\ running' = [running EXCEPT ![loop_of[c]] = 0]
    /\ UNCHANGED <<model, model_loaded, loop_of, load_calls, load_fails, used>>
    /\ UNCHANGED <<chunkVars, jobVars, batchVars, extVars>>

\* _load_model_sync on an executor thread: builds the model and stores it in
\* self.model itself, or raises
LoadModelSync(c) ==
    /\ load_future[c] = "pending"
    /\ load_calls' = load_calls + 1
    /\ \/ /\ model' = load_calls + 1
          /\ load_future' = [load_future EXCEPT ![c] = "ok"]
          /\ UNCHANGED load_fails
       \/ /\ load_future' = [load_future EXCEPT ![c] = "err"]
          /\ load_fails' = load_fails + 1
          /\ UNCHANGED model
    /\ UNCHANGED <<model_loaded, model_lock, lpc, loop_of, running, used>>
    /\ UNCHANGED <<chunkVars, jobVars, batchVars, extVars>>

\* load_model resumes after the await, on its loop's thread: sets
\* _model_loaded and leaves the with block, or re-raises and leaves it
ResumeLoad(c) ==
    /\ lpc[c] = "awaiting"
    /\ load_future[c] \in {"ok", "err"}
    /\ LoopFree(c)
    /\ model_lock' = 0
    /\ load_future' = [load_future EXCEPT ![c] = "none"]
    /\ IF load_future[c] = "ok"
       THEN /\ model_loaded' = TRUE
            /\ lpc' = [lpc EXCEPT ![c] = "use"]
            /\ running' = [running EXCEPT ![loop_of[c]] = c]
       ELSE /\ lpc' = [lpc EXCEPT ![c] = "failed"]
            /\ UNCHANGED <<model_loaded, running>>
    /\ UNCHANGED <<model, loop_of, load_calls, load_fails, used>>
    /\ UNCHANGED <<chunkVars, jobVars, batchVars, extVars>>

\* transcribe_audio after the load: the inference runs on self.model
UseModel(c) ==
    /\ lpc[c] = "use"
    /\ OnThread(c)
    /\ used' = [used EXCEPT ![c] = model]
    /\ lpc' = [lpc EXCEPT ![c] = "done"]
    /\ running' = [running EXCEPT ![loop_of[c]] = 0]
    /\ UNCHANGED <<model, model_loaded, model_lock, loop_of, load_future,
                   load_calls, load_fails>>
    /\ UNCHANGED <<chunkVars, jobVars, batchVars, extVars>>

NextLoad ==
    \E c \in Callers :
        \/ CheckModel(c)
        \/ AcquireLock(c)
        \/ LoadModelSync(c)
        \/ ResumeLoad(c)
        \/ UseModel(c)

SpecLoad == InitLoad /\ [][NextLoad]_vars

SplitInputs ==
    [duration : 1..MaxDuration, chunk_duration : ChunkDurations,
     overlap : Overlaps, min_duration_for_chunking : MinDurations]

\* Chunk results as the transcribers build them: chunk i spans
\* [start_i, start_i + len_i] with start_1 = 0 and
\* start_i = end_(i-1) - overlap; its segments carry times local to the
\* chunk, sorted and non-overlapping, as a backend returns them.
ChunkLens == {3, 4}
MaxChunkLen == 4

Intervals == {iv \in (0..MaxChunkLen) \X (0..MaxChunkLen) : iv[1] < iv[2]}

SortedLocal(ivs) ==
    \A k \in 1..(Len(ivs) - 1) : ivs[k][2] <= ivs[k + 1][1]

SegLists ==
    UNION {{ivs \in [1..n -> Intervals] : SortedLocal(ivs)} : n \in 0..MaxSegs}

RECURSIVE ChunkStart(_, _, _)
ChunkStart(lens, overlap, i) ==
    IF i <= 1 THEN 0
    ELSE ChunkStart(lens, overlap, i - 1) + lens[i - 1] - overlap

\* token k of chunk i
Token(i, k) == 10 * i + k

BuildResults(lens, ivss, bare, overlap) ==
    [i \in 1..Len(lens) |->
        LET segs == [k \in 1..Len(ivss[i]) |->
                        [start |-> ivss[i][k][1], end |-> ivss[i][k][2],
                         text |-> << Token(i, k) >>]]
        IN [text       |-> IF segs = << >>
                           THEN (IF bare[i] THEN << Token(i, 0) >> ELSE << >>)
                           ELSE Join(SegTexts(segs)),
            segments   |-> segs,
            start_time |-> ChunkStart(lens, overlap, i),
            end_time   |-> ChunkStart(lens, overlap, i) + lens[i]]]

MergeInputs(overlap) ==
    UNION {{BuildResults(lens, ivss, bare, overlap) :
              <<lens, ivss, bare>> \in
                 {t \in [1..n -> ChunkLens] \X [1..n -> SegLists]
                                            \X [1..n -> BOOLEAN] :
                     \A i \in 1..n :
                        /\ \A k \in 1..Len(t[2][i]) : t[2][i][k][2] <= t[1][i]
                        /\ (t[2][i] # << >> => t[3][i])}}
           : n \in 1..MaxChunks}

\* --------------------------------------------------------------------------
\* Chunker specification: split_audio and merge_results on bounded inputs
\* --------------------------------------------------------------------------
InitChunk ==
    /\ LoadIdle
    /\ ExtIdle
    /\ chunks = None
    /\ chunk_files = {}
    /\ merged = None
    /\ \/ /\ chunker \in SplitInputs
          /\ chunk_results = << >>
       \/ /\ \E ov \in Overlaps : chunker = [NoAudio EXCEPT !.overlap = ov]
          /\ chunk_results \in MergeInputs(chunker.overlap)

SplitAudio ==
    /\ chunks = None
    /\ chunker.duration > 0
    /\ chunker.chunk_duration > chunker.overlap
    /\ \E fail_at \in 0..Len(split_audio(chunker)) :
          /\ (fail_at > 0 => should_chunk(chunker))
          /\ chunks' = Some(SplitOutcome(chunker, fail_at).chunks)
          /\ chunk_files' = SplitOutcome(chunker, fail_at).files
    /\ UNCHANGED <<chunker, chunk_results, merged>>
    /\ UNCHANGED <<loadVars, jobVars, batchVars, extVars>>

MergeResults ==
    /\ merged = None
    /\ merged' = Some(merge_results(chunk_results, chunker.overlap))
    /\ chunk_results' = ResultsAfterMerge(chunk_results, chunker.overlap)
    /\ UNCHANGED <<chunker, chunks, chunk_files>>
    /\ UNCHANGED <<loadVars, jobVars, batchVars, extVars>>

NextChunk == SplitAudio \/ MergeResults

SpecChunk == InitChunk /\ [][NextChunk]_vars

\* --------------------------------------------------------------------------
\* C5  Chunk coverage
\* --------------------------------------------------------------------------
Covers(cs, duration) ==
    /\ Len(cs) >= 1
    /\ cs[1].start = 0
    /\ cs[Len(cs)].end = duration
    /\ \A i \in 2..Len(cs) : cs[i].start <= cs[i - 1].end

\* C5: whenever chunking is triggered and chunk_seconds > overlap_seconds >= 0,
\* the chunks returned by split cover [0, D]: the first starts at 0, the last
\* ends at D and no chunk starts after the end of its predecessor.
C5_ChunkCoverage ==
    (IsSome(chunks) /\ should_chunk(chunker)
        /\ chunker.chunk_duration > chunker.overlap /\ chunker.overlap >= 0)
    => Covers(Val(chunks), chunker.duration)

\* --------------------------------------------------------------------------
\* C6  Merge non-overlap
\* --------------------------------------------------------------------------
SegmentsOrdered(segs) ==
    \A k \in 1..(Len(segs) - 1) : segs[k + 1].start >= segs[k].end

\* C6: the segments of a merged transcript are sorted by start time and
\* pairwise non-overlapping: each starts at or after the end of the one
\* before it.
C6_MergeNonOverlap ==
    IsSome(merged) => SegmentsOrdered(Val(merged).segments)

\* --------------------------------------------------------------------------
\* TaskService
\* --------------------------------------------------------------------------
\* list.remove(x): drops the first occurrence; the ValueError of a missing x
\* is swallowed by the caller
RECURSIVE RemoveFirst(_, _)
RemoveFirst(seq, x) ==
    IF seq = << >> THEN << >>
    ELSE IF Head(seq) = x THEN Tail(seq)
    ELSE << Head(seq) >> \o RemoveFirst(Tail(seq), x)

\* TaskInfo(...) as transcribe_file builds it
NewTaskInfo ==
    [status |-> "pending", progress |-> 0, completed_at |-> FALSE,
     error_message |-> "none", result |-> FALSE]

\* add_task: the store after self.tasks[task_id] = task_info
AddTask(ts, task_id, task_info) ==
    [x \in (DOMAIN ts) \cup {task_id} |->
        IF x = task_id THEN task_info ELSE ts[x]]

\* add_task: the index after tasks_by_status[status].append(task_id)
IndexAdd(tbs, status, task_id) ==
    [tbs EXCEPT ![status] = Append(@, task_id)]

\* update_task_status: the TaskInfo after the call.  progress = 0 and
\* error_message = "none" stand for the falsy arguments (None, 0, "").
UpdatedTask(task, status, error_message, progress) ==
    [task EXCEPT
        !.status = status,
        !.progress = IF progress # 0 THEN progress ELSE @,
        !.error_message = IF error_message # "none" THEN error_message ELSE @,
        !.completed_at = IF status \in {"completed", "failed"} THEN TRUE ELSE @]

\* update_task_status: the index after the remove and the append
IndexMove(tbs, old_status, status, task_id) ==
    IndexAdd([tbs EXCEPT ![old_status] = RemoveFirst(@, task_id)],
             status, task_id)

\* update_task_status called by a client of the store while pipelines run
UpdateTaskStatus(j, status, error_message, progress) ==
    /\ api_calls < MaxApiCalls
    /\ api_calls' = api_calls + 1
    /\ IF j \in DOMAIN tasks
       THEN /\ tasks' = [tasks EXCEPT
                           ![j] = UpdatedTask(@, status, error_message, progress)]
            /\ tasks_by_status' =
                   IndexMove(tasks_by_status, tasks[j].status, status, j)
            /\ cancel_req' =
                   [cancel_req EXCEPT
                       ![j] = @ \/ (status = "cancelled"
                                    /\ tasks[j].status \notin TerminalStatuses)]
       ELSE UNCHANGED <<tasks, tasks_by_status, cancel_req>>
    /\ UNCHANGED <<pc, events, files, semaphore, max_concurrent, job_chunks,
                   status_reports>>
    /\ UNCHANGED <<chunkVars, loadVars, batchVars, extVars>>

\* --------------------------------------------------------------------------
\* TranscriptionService.transcribe_batch / transcribe_file
\* --------------------------------------------------------------------------
CanAcquire_Unbounded(value) == TRUE

\* "async with semaphore": the acquire goes through when the value is positive
CanAcquire(value) == value > 0

\* _extract_audio.update_progress: 10 + progress * 0.4
ExtractProgress(p) == 1000 + (p * 4) \div 10
\* _transcribe.update_progress: 50 + progress * 0.45
TranscribeProgress(p) == 5000 + (p * 45) \div 100
\* _transcribe_with_chunking: 20 + 60 * (i + 1) / total_chunks, i from 0
ChunkProgress(i, total_chunks) == 2000 + (6000 * (i + 1)) \div total_chunks

\* milestones AudioExtractor.extract_and_optimize reports (decode start,
\* decode done, normalize done), in hundredths of a percent
PrepareMilestones == << 0, 5000, 10000 >>

\* TaskService.get_active_tasks: the tasks listed under the three active
\* statuses of the index (ids no longer in the store are skipped)
get_active_tasks(ts, tbs) ==
    SelectSeq(tbs["pending"] \o tbs["extracting"] \o tbs["transcribing"],
              LAMBDA task_id : task_id \in DOMAIN ts)

\* TaskService.get_statistics, the four entries _update_batch_progress reads
get_statistics(ts, tbs, st) ==
    [total_tasks   |-> Cardinality(DOMAIN ts),
     active_tasks  |-> Len(get_active_tasks(ts, tbs)),
     total_success |-> st.total_success,
     total_failed  |-> st.total_failed]

\* _update_batch_progress: the dict handed to the batch progress callback
BatchStatusReport(ts, tbs, st) ==
    [total     |-> get_statistics(ts, tbs, st).total_tasks,
     completed |-> get_statistics(ts, tbs, st).total_success,
     failed    |-> get_statistics(ts, tbs, st).total_failed,
     pending   |-> get_statistics(ts, tbs, st).active_tasks]

\* progress_callback(task_id, value, ...) for every value, in order; in a
\* batch the callback is single_progress, which reports the batch status.
\* The steps that report write task fields only, never the store's key set,
\* its index or its counters, so every report of one step is the same dict.
Emit(j, values) ==
    /\ events' = [events EXCEPT ![j] = @ \o values]
    /\ status_reports' = {BatchStatusReport(tasks, tasks_by_status, stats)}

\* the two except clauses of transcribe_file, after the step has emitted
\* `values`: status FAILED, the message, completed_at, progress_callback(0),
\* and the exception leaves process_single's "async with"
HandleFailure(j, kind, values) ==
    /\ tasks' = [tasks EXCEPT ![j] = [@ EXCEPT !.status = "failed",
                                                !.error_message = kind,
                                                !.completed_at = TRUE]]
    /\ Emit(j, values \o << 0 >>)
    /\ semaphore' = semaphore + 1
    /\ pc' = [pc EXCEPT ![j] = "done"]

FailureKinds == {"error", "timeout"}

\* process_single enters the semaphore; transcribe_file creates the task
Submit(j) ==
    /\ pc[j] = "queued"
    /\ CanAcquire(semaphore)
    /\ semaphore' = semaphore - 1
    /\ tasks' = AddTask(tasks, j, NewTaskInfo)
    /\ tasks_by_status' = IndexAdd(tasks_by_status, NewTaskInfo.status, j)
    /\ pc' = [pc EXCEPT ![j] = "validate"]
    /\ UNCHANGED <<events, files, max_concurrent, job_chunks, cancel_req,
                   api_calls, status_reports>>
    /\ UNCHANGED <<chunkVars, loadVars, batchVars, extVars>>

\* _validate_file: progress 5, then the existence, size and format checks
ValidateFile(j) ==
    /\ pc[j] = "validate"
    /\ \/ /\ Emit(j, << 500 >>)
          /\ pc' = [pc EXCEPT ![j] = "extract"]
          /\ UNCHANGED <<tasks, semaphore>>
       \/ HandleFailure(j, "error", << 500 >>)
    /\ UNCHANGED <<tasks_by_status, files, max_concurrent, job_chunks,
                   cancel_req, api_calls>>
    /\ UNCHANGED <<chunkVars, loadVars, batchVars, extVars>>

\* _extract_audio: the extractor reports its milestones and writes the
\* prepared audio, then progress 50; or the extractor raises
ExtractAudio(j) ==
    /\ pc[j] = "extract"
    /\ \/ /\ Emit(j, [k \in 1..Len(PrepareMilestones) |->
                         ExtractProgress(PrepareMilestones[k])] \o << 5000 >>)
          /\ files' = files \cup {<<j, "audio">>}
          /\ pc' = [pc EXCEPT ![j] = "load"]
          /\ UNCHANGED <<tasks, semaphore>>
       \/ /\ \E kind \in FailureKinds :
                HandleFailure(j, kind, << ExtractProgress(PrepareMilestones[1]) >>)
          /\ UNCHANGED files
    /\ UNCHANGED <<tasks_by_status, max_concurrent, job_chunks, cancel_req,
                   api_calls>>
    /\ UNCHANGED <<chunkVars, loadVars, batchVars, extVars>>

\* _transcribe -> transcribe_audio: load the job's own model, progress 10
LoadJobModel(j) ==
    /\ pc[j] = "load"
    /\ \/ /\ Emit(j, << TranscribeProgress(1000) >>)
          /\ pc' = [pc EXCEPT ![j] = "infer"]
          /\ UNCHANGED <<tasks, semaphore>>
       \/ \E kind \in FailureKinds : HandleFailure(j, kind, << >>)
    /\ UNCHANGED <<tasks_by_status, files, max_concurrent, job_chunks,
                   cancel_req, api_calls>>
    /\ UNCHANGED <<chunkVars, loadVars, batchVars, extVars>>

\* _transcribe_sync: progress 20, then either the single inference (n = 0
\* below) or _transcribe_with_chunking's split_audio: n chunk files, or the
\* ffmpeg call of chunk fail_at fails and the list is the original file alone
BeginInference(j) ==
    /\ pc[j] = "infer"
    /\ Emit(j, << TranscribeProgress(2000) >>)
    /\ \/ /\ pc' = [pc EXCEPT ![j] = "single"]
          /\ UNCHANGED <<files, job_chunks>>
       \/ \E n \in 1..MaxJobChunks, fail_at \in 0..MaxJobChunks :
             /\ fail_at <= n
             /\ pc' = [pc EXCEPT ![j] = "chunk"]
             /\ IF fail_at = 0
                THEN /\ files' = files \cup {<<j, "chunk", i>> : i \in 1..n}
                     /\ job_chunks' =
                          [job_chunks EXCEPT
                              ![j] = [n |-> n, idx |-> 0, lost |-> FALSE,
                                      listed |-> {<<j, "chunk", i>> : i \in 1..n}]]
                ELSE /\ files' = files
                          \cup {<<j, "chunk", i>> : i \in 1..(fail_at - 1)}
                     /\ job_chunks' =
                          [job_chunks EXCEPT
                              ![j] = [n |-> 1, idx |-> 0, lost |-> FALSE,
                                      listed |-> {}]]
    /\ UNCHANGED <<tasks, tasks_by_status, semaphore, max_concurrent,
                   cancel_req, api_calls>>
    /\ UNCHANGED <<chunkVars, loadVars, batchVars, extVars>>

\* one iteration of the chunk loop: progress, then _transcribe_single_chunk;
\* an exception is caught and an empty result stands in for the chunk
TranscribeChunk(j) ==
    /\ pc[j] = "chunk"
    /\ job_chunks[j].idx < job_chunks[j].n
    /\ Emit(j, << TranscribeProgress(
                     ChunkProgress(job_chunks[j].idx, job_chunks[j].n)) >>)
    /\ \E ok \in BOOLEAN :
          job_chunks' = [job_chunks EXCEPT
                            ![j] = [@ EXCEPT !.idx = @ + 1,
                                             !.lost = @ \/ ~ok]]
    /\ UNCHANGED <<tasks, tasks_by_status, pc, files, semaphore,
                   max_concurrent, cancel_req, api_calls>>
    /\ UNCHANGED <<chunkVars, loadVars, batchVars, extVars>>

\* after the loop: cleanup_chunks on the listed paths, merge, progress 100 of
\* transcribe_audio, progress 95 of _transcribe, unload
FinishChunks(j) ==
    /\ pc[j] = "chunk"
    /\ job_chunks[j].idx = job_chunks[j].n
    /\ files' = files \ job_chunks[j].listed
    /\ Emit(j, << TranscribeProgress(10000), 9500 >>)
    /\ pc' = [pc EXCEPT ![j] = "cleanup"]
    /\ UNCHANGED <<tasks, tasks_by_status, semaphore, max_concurrent,
                   job_chunks, cancel_req, api_calls>>
    /\ UNCHANGED <<chunkVars, loadVars, batchVars, extVars>>

\* the unchunked inference: progress 80, 100, then 95; or model.generate raises
SingleInference(j) ==
    /\ pc[j] = "single"
    /\ \/ /\ Emit(j, << TranscribeProgress(8000), TranscribeProgress(10000),
                        9500 >>)
          /\ pc' = [pc EXCEPT ![j] = "cleanup"]
          /\ UNCHANGED <<tasks, semaphore>>
       \/ \E kind \in FailureKinds : HandleFailure(j, kind, << >>)
    /\ UNCHANGED <<tasks_by_status, files, max_concurrent, job_chunks,
                   cancel_req, api_calls>>
    /\ UNCHANGED <<chunkVars, loadVars, batchVars, extVars>>

\* _cleanup_temp_files(audio_path), then the four assignments that complete
\* the task
Complete(j) ==
    /\ pc[j] = "cleanup"
    /\ files' = files \ {<<j, "audio">>}
    /\ tasks' = [tasks EXCEPT ![j] = [@ EXCEPT !.status = "completed",
                                                !.result = TRUE,
                                                !.completed_at = TRUE,
                                                !.progress = FullProgress]]
    /\ pc' = [pc EXCEPT ![j] = "notify"]
    /\ UNCHANGED <<tasks_by_status, events, semaphore, max_concurrent,
                   job_chunks, cancel_req, api_calls, status_reports>>
    /\ UNCHANGED <<chunkVars, loadVars, batchVars, extVars>>

\* progress_callback(task_id, 100, ...), still inside the try: the callback
\* returns and transcribe_file returns the result, or the callback raises and
\* the except clause runs
NotifyDone(j) ==
    /\ pc[j] = "notify"
    /\ \/ /\ Emit(j, << FullProgress >>)
          /\ semaphore' = semaphore + 1
          /\ pc' = [pc EXCEPT ![j] = "done"]
          /\ UNCHANGED tasks
       \/ HandleFailure(j, "error", << FullProgress >>)
    /\ UNCHANGED <<tasks_by_status, files, max_concurrent, job_chunks,
                   cancel_req, api_calls>>
    /\ UNCHANGED <<chunkVars, loadVars, batchVars, extVars>>

InitJob ==
    /\ ChunkIdle
    /\ LoadOnly
    /\ BatchIdle
    /\ ExtIdle
    /\ tasks = << >>
    /\ tasks_by_status = [st \in Statuses |-> << >>]
    /\ pc = [j \in Jobs |-> "queued"]
    /\ events = [j \in Jobs |-> << >>]
    /\ files = {}
    /\ max_concurrent \in 1..MaxConcurrent
    /\ semaphore = max_concurrent
    /\ job_chunks = [j \in Jobs |-> NoChunks]
    /\ cancel_req = [j \in Jobs |-> FALSE]
    /\ api_calls = 0
    /\ status_reports = {}

ApiProgress == {0, 4000}
ApiErrors == {"none", "api"}

Pipeline(j) ==
        \/ Submit(j)
        \/ ValidateFile(j)
        \/ ExtractAudio(j)
        \/ LoadJobModel(j)
        \/ BeginInference(j)
        \/ TranscribeChunk(j)
        \/ FinishChunks(j)
        \/ SingleInference(j)
        \/ Complete(j)
        \/ NotifyDone(j)

\* the pipelines of one batch, no other client of the store
NextBatchRun == \E j \in Jobs : Pipeline(j)

SpecBatchRun == InitJob /\ [][NextBatchRun]_vars

\* the pipelines and a client calling update_task_status
NextJob ==
    \E j \in Jobs :
        \/ Pipeline(j)
        \/ \E st \in Statuses, err \in ApiErrors, pr \in ApiProgress :
              UpdateTaskStatus(j, st, err, pr)

SpecJob == InitJob /\ [][NextJob]_vars

\* jobs inside process_single's "async with semaphore"
InPipeline == {j \in Jobs : pc[j] \notin {"queued", "done"}}

\* --------------------------------------------------------------------------
\* C9  Bounded concurrency
\* --------------------------------------------------------------------------
\* C9: during a batch with limit max_concurrent >= 1, never more than
\* max_concurrent job pipelines are executing at the same time.
C9_BoundedConcurrency ==
    max_concurrent >= 1 => Cardinality(InPipeline) <= max_concurrent

\* the limit is reached while another file is still waiting for a slot
C9_Witness ==
    /\ max_concurrent >= 1
    /\ Cardinality(InPipeline) = max_concurrent
    /\ \E j \in Jobs : pc[j] = "queued"

\* --------------------------------------------------------------------------
\* Batch records: TaskService.create_batch_task / update_batch_task and the
\* inline counters of VideoTranscriptionEngine.process_batch_urls
\* --------------------------------------------------------------------------
NumBatches == 1
MaxTotal == 2
MaxDelta == 2
MaxBatchUpdates == 2

Batches == 1..NumBatches

\* BatchTaskInfo as create_batch_task and process_batch_urls build it
NewBatchInfo(total_count) ==
    [total_count |-> total_count, pending_count |-> total_count,
     completed_count |-> 0, failed_count |-> 0]

BatchAfterUpdate_KeepsFailedPending(batch_info, completed, failed) ==
    [batch_info EXCEPT
        !.completed_count = @ + completed,
        !.failed_count = @ + failed,
        !.pending_count = @ - completed]

\* update_batch_task: the three "+=" / "-=" lines
BatchAfterUpdate(batch_info, completed, failed) ==
    [batch_info EXCEPT
        !.completed_count = @ + completed,
        !.failed_count = @ + failed,
        !.pending_count = @ - (completed + failed)]

\* batch ids are fresh (timestamp plus uuid4), so a batch is created once
CreateBatchTask(b, total_count) ==
    /\ b \notin DOMAIN batch_tasks
    /\ batch_tasks' = [x \in (DOMAIN batch_tasks) \cup {b} |->
                          IF x = b THEN NewBatchInfo(total_count)
                          ELSE batch_tasks[x]]
    /\ UNCHANGED <<batch_updates, engine_batch, url_pc, url_sem, url_limit>>
    /\ UNCHANGED <<chunkVars, loadVars, jobVars, extVars>>

UpdateBatchTask(b, completed, failed) ==
    /\ batch_updates < MaxBatchUpdates
    /\ batch_updates' = batch_updates + 1
    /\ IF b \in DOMAIN batch_tasks
       THEN batch_tasks' =
               [batch_tasks EXCEPT ![b] = BatchAfterUpdate(@, completed, failed)]
       ELSE UNCHANGED batch_tasks
    /\ UNCHANGED <<engine_batch, url_pc, url_sem, url_limit>>
    /\ UNCHANGED <<chunkVars, loadVars, jobVars, extVars>>

\* process_batch_urls up to the gather: the batch record and the semaphore
ProcessBatchUrls(n, limit) ==
    /\ engine_batch = None
    /\ engine_batch' = Some(NewBatchInfo(n))
    /\ url_pc' = [u \in Urls |-> IF u <= n THEN "queued" ELSE "absent"]
    /\ url_sem' = limit
    /\ url_limit' = limit
    /\ UNCHANGED <<batch_tasks, batch_updates>>
    /\ UNCHANGED <<chunkVars, loadVars, jobVars, extVars>>

\* process_single_url enters "async with semaphore"
EnterUrl(u) ==
    /\ url_pc[u] = "queued"
    /\ CanAcquire(url_sem)
    /\ url_sem' = url_sem - 1
    /\ url_pc' = [url_pc EXCEPT ![u] = "running"]
    /\ UNCHANGED <<batch_tasks, batch_updates, engine_batch, url_limit>>
    /\ UNCHANGED <<chunkVars, loadVars, jobVars, extVars>>

\* process_single_url, success branch:
\* batch_info.completed_count += 1; batch_info.pending_count -= 1
CountCompleted(batch_info) ==
    [batch_info EXCEPT !.completed_count = @ + 1, !.pending_count = @ - 1]

CountFailed_AsCompleted(batch_info) ==
    [batch_info EXCEPT !.completed_count = @ + 1, !.pending_count = @ - 1]

\* process_single_url, except branch:
\* batch_info.failed_count += 1; batch_info.pending_count -= 1
CountFailed(batch_info) ==
    [batch_info EXCEPT !.failed_count = @ + 1, !.pending_count = @ - 1]

\* process_video_url returned: completed_count += 1, pending_count -= 1
UrlCompleted(u) ==
    /\ url_pc[u] = "running"
    /\ engine_batch' = Some(CountCompleted(Val(engine_batch)))
    /\ url_sem' = url_sem + 1
    /\ url_pc' = [url_pc EXCEPT ![u] = "completed"]
    /\ UNCHANGED <<batch_tasks, batch_updates, url_limit>>
    /\ UNCHANGED <<chunkVars, loadVars, jobVars, extVars>>

\* process_video_url raised: failed_count += 1, pending_count -= 1
UrlFailed(u) ==
    /\ url_pc[u] = "running"
    /\ engine_batch' = Some(CountFailed(Val(engine_batch)))
    /\ url_sem' = url_sem + 1
    /\ url_pc' = [url_pc EXCEPT ![u] = "failed"]
    /\ UNCHANGED <<batch_tasks, batch_updates, url_limit>>
    /\ UNCHANGED <<chunkVars, loadVars, jobVars, extVars>>

InitBatch ==
    /\ ChunkIdle
    /\ LoadOnly
    /\ JobOnly
    /\ BatchIdle
    /\ ExtIdle

NextBatch ==
    \/ \E b \in Batches, total_count \in 0..MaxTotal :
          CreateBatchTask(b, total_count)
    \/ \E b \in Batches, completed \in 0..MaxDelta, failed \in 0..MaxDelta :
          UpdateBatchTask(b, completed, failed)
    \/ \E n \in 1..NumUrls, limit \in 1..MaxConcurrent :
          ProcessBatchUrls(n, limit)
    \/ \E u \in Urls : EnterUrl(u) \/ UrlCompleted(u) \/ UrlFailed(u)

SpecBatch == InitBatch /\ [][NextBatch]_vars

\* --------------------------------------------------------------------------
\* C3  Batch counter invariant
\* --------------------------------------------------------------------------
CountersAddUp(batch_info) ==
    batch_info.pending_count + batch_info.completed_count
        + batch_info.failed_count = batch_info.total_count

\* C3: for every batch record, after creation and after any sequence of
\* counter updates, pending + completed + failed equals total.
C3_BatchCounters ==
    /\ \A b \in DOMAIN batch_tasks : CountersAddUp(batch_tasks[b])
    /\ IsSome(engine_batch) => CountersAddUp(Val(engine_batch))

\* a stored batch has seen completions and failures, and the URL batch has
\* finished one job each way
C3_Witness ==
    /\ \E b \in DOMAIN batch_tasks :
          /\ batch_tasks[b].completed_count > 0
          /\ batch_tasks[b].failed_count > 0
    /\ IsSome(engine_batch)
    /\ Val(engine_batch).completed_count > 0
    /\ Val(engine_batch).failed_count > 0

\* --------------------------------------------------------------------------
\* C1  Terminal monotonicity
\* --------------------------------------------------------------------------
\* C1: once a job's state is Completed, Failed or Cancelled, no later
\* operation changes its state, its result or its error message.
C1_TerminalMonotonicity ==
    [][\A j \in DOMAIN tasks :
          tasks[j].status \in TerminalStatuses =>
             /\ j \in DOMAIN tasks'
             /\ tasks'[j].status = tasks[j].status
             /\ tasks'[j].result = tasks[j].result
             /\ tasks'[j].error_message = tasks[j].error_message]_vars

\* --------------------------------------------------------------------------
\* C2  Progress monotonicity
\* --------------------------------------------------------------------------
NonDecreasing(values) ==
    \A k \in 1..(Len(values) - 1) : values[k] <= values[k + 1]

\* C2: of any two progress values reported for one job the earlier is less
\* than or equal to the later, on every path, and the progress stored on the
\* job record never decreases.
C2_ProgressMonotone ==
    [][/\ \A j \in Jobs : NonDecreasing(events'[j])
       /\ \A j \in DOMAIN tasks :
             j \in DOMAIN tasks' => tasks'[j].progress >= tasks[j].progress]_vars

\* --------------------------------------------------------------------------
\* C7  Cleanup totality
\* --------------------------------------------------------------------------
FilesOf(j) == {f \in files : f[1] = j}

\* C7: after a job has reached a terminal state and its pipeline has ended,
\* no prepared-audio file and no chunk file of that job is left on disk.
C7_CleanupTotality ==
    \A j \in DOMAIN tasks :
        (pc[j] = "done" /\ tasks[j].status \in TerminalStatuses)
            => FilesOf(j) = {}

\* --------------------------------------------------------------------------
\* C8  Cancellation
\* --------------------------------------------------------------------------
\* C8: a job for which cancellation was requested while it was not terminal
\* ends in state Cancelled.
C8_CancelEndsCancelled ==
    \A j \in DOMAIN tasks :
        (cancel_req[j] /\ pc[j] = "done") => tasks[j].status = "cancelled"

\* --------------------------------------------------------------------------
\* C10  Outputs match the state
\* --------------------------------------------------------------------------
\* C10: a job record holds a result iff its state is Completed and an error
\* message iff its state is Failed.
C10_OutputsMatchState ==
    \A j \in DOMAIN tasks :
        /\ tasks[j].result <=> (tasks[j].status = "completed")
        /\ (tasks[j].error_message # "none") <=> (tasks[j].status = "failed")

\* --------------------------------------------------------------------------
\* C11  completed_at
\* --------------------------------------------------------------------------
\* C11: at every observation point a job's completed_at is set iff the job's
\* state is terminal (Completed, Failed or Cancelled).
C11_CompletedAtIffTerminal ==
    \A j \in DOMAIN tasks :
        tasks[j].completed_at <=> (tasks[j].status \in TerminalStatuses)

\* --------------------------------------------------------------------------
\* C12  State machine
\* --------------------------------------------------------------------------
\* The edges of the per-job state machine on TaskStatus: Pending -> Preparing
\* (extracting) -> Transcribing -> Completed (the code has no status for
\* Merging, so Transcribing -> Completed stands for the two edges through it),
\* and the Failed and Cancelled exits of every non-terminal state.
StateMachineEdges ==
    {<<"pending", "extracting">>, <<"extracting", "transcribing">>,
     <<"transcribing", "completed">>}
      \cup {<<from, to>> \in Statuses \X Statuses :
               /\ from \notin TerminalStatuses
               /\ to \in {"failed", "cancelled"}}

\* C12: a job's state changes only along the edges of the state machine; a
\* change that is not an edge is rejected and leaves the record unchanged.
C12_OnlyStateMachineEdges ==
    [][\A j \in DOMAIN tasks :
          j \in DOMAIN tasks' =>
             \/ tasks'[j].status = tasks[j].status
             \/ <<tasks[j].status, tasks'[j].status>> \in StateMachineEdges]_vars

\* --------------------------------------------------------------------------
\* C13  A failed chunk fails the job
\* --------------------------------------------------------------------------
\* C13: a job one of whose chunks failed in the backend never ends Completed
\* (with that chunk's content missing or replaced); it ends Failed.
C13_ChunkFailureFailsJob ==
    \A j \in DOMAIN tasks :
        (pc[j] = "done" /\ job_chunks[j].lost) => tasks[j].status = "failed"

\* --------------------------------------------------------------------------
\* C15  Merge is pure
\* --------------------------------------------------------------------------
\* C15: merge_results leaves the chunk results passed to it (and their
\* segments) as they were, and a second call with the same list and overlap
\* returns a transcript equal to the first.
C15_MergePure ==
    [][(merged = None /\ IsSome(merged')) =>
          /\ chunk_results' = chunk_results
          /\ merge_results(chunk_results', chunker.overlap) = Val(merged')]_vars

\* --------------------------------------------------------------------------
\* C16  Final batch counts
\* --------------------------------------------------------------------------
\* the URL batch has run to quiescence: every URL's job has ended
BatchQuiescent ==
    /\ IsSome(engine_batch)
    /\ \A u \in Urls : url_pc[u] \in {"absent", "completed", "failed"}

FailedUrls == {u \in Urls : url_pc[u] = "failed"}
SubmittedUrls == {u \in Urls : url_pc[u] # "absent"}

\* C16: after a batch of n jobs of which exactly k failed has run to
\* quiescence, the batch record reports completed = n - k, failed = k and
\* pending = 0, for every concurrency limit and order of completion.
C16_BatchFinalCounts ==
    BatchQuiescent =>
        LET n == Cardinality(SubmittedUrls)
            k == Cardinality(FailedUrls)
            batch_info == Val(engine_batch)
        IN /\ batch_info.total_count = n
           /\ batch_info.completed_count = n - k
           /\ batch_info.failed_count = k
           /\ batch_info.pending_count = 0

\* a batch of two jobs has ended with one job failed and one completed
C16_Witness ==
    /\ BatchQuiescent
    /\ Cardinality(SubmittedUrls) >= 2
    /\ Cardinality(FailedUrls) >= 1
    /\ Cardinality(FailedUrls) < Cardinality(SubmittedUrls)

\* --------------------------------------------------------------------------
\* C17  Batch status reports
\* --------------------------------------------------------------------------
\* C17: every batch status report handed to the batch progress callback while
\* a file batch runs has pending + completed + failed = total, where total is
\* the number of files of the batch.
C17_StatusReportsAddUp ==
    \A report \in status_reports :
        /\ report.total = NumJobs
        /\ report.pending + report.completed + report.failed = report.total

\* --------------------------------------------------------------------------
\* The wall clock of a job: transcribe_file(timeout=...) and TASK_TIMEOUT
\* --------------------------------------------------------------------------
\* The clock passes "timeout or self.config.TASK_TIMEOUT" seconds after the
\* start of transcribe_file while the job is still being processed.  Nothing
\* in transcribe_file reads the clock or wraps a stage in a timed wait, so no
\* variable of the pipeline changes.
DeadlinePasses(j) ==
    /\ pc[j] \in {"validate", "extract", "load", "infer", "single", "chunk"}
    /\ ~late[j]
    /\ late' = [late EXCEPT ![j] = TRUE]
    /\ UNCHANGED stats
    /\ UNCHANGED <<chunkVars, loadVars, jobVars, batchVars, whisperVars,
                   wsVars, pubVars, moreVars>>

NextTimed ==
    \E j \in Jobs :
        \/ Pipeline(j)
        \/ DeadlinePasses(j)

SpecTimed == InitJob /\ [][NextTimed]_vars

\* --------------------------------------------------------------------------
\* C18  Timeout
\* --------------------------------------------------------------------------
\* C18: a job whose processing ran past its wall-clock timeout has been
\* stopped and has ended Failed with a timeout error.
C18_TimeoutFailsJob ==
    \A j \in DOMAIN tasks :
        (late[j] /\ pc[j] = "done") =>
            /\ tasks[j].status = "failed"
            /\ tasks[j].error_message = "timeout"

\* --------------------------------------------------------------------------
\* SpeechTranscriber.transcribe_audio_with_chunking: the chunk loop, the
\* retries of _sync_transcribe_with_retry and the fallback
\* --------------------------------------------------------------------------
\* _transcribe_audio_sync passes max_retries=2 to _sync_transcribe_with_retry
MaxRetries == 2

\* what one backend call (_sync_transcribe in the executor) does: it returns,
\* raises one of retryable_exceptions, or raises something else
BackendOutcomes == {"ok", "retried_error", "other_error"}

\* retry_on_exception: "if attempt == max_retries: raise"
LastAttempt(attempt) == attempt = MaxRetries

\* split_audio returned n chunks; the loop starts at the first
WhSplit(n) ==
    /\ wh_pc = "idle"
    /\ wh_pc' = "chunks"
    /\ wh_total' = n
    /\ wh_index' = 1
    /\ wh_attempt' = 0
    /\ UNCHANGED <<wh_calls, wh_fallback, wh_exhausted, wh_outcome>>
    /\ UNCHANGED <<chunkVars, loadVars, jobVars, batchVars, timeVars, wsVars,
                   pubVars, moreVars>>

\* one attempt of the retry loop for the current chunk
WhAttempt(outcome) ==
    /\ wh_pc = "chunks"
    /\ wh_index <= wh_total
    /\ wh_calls' = [wh_calls EXCEPT ![wh_index] = @ + 1]
    /\ CASE outcome = "ok" ->
               \* next chunk, or merge and return after the last one
               /\ wh_attempt' = 0
               /\ IF wh_index = wh_total
                  THEN /\ wh_pc' = "done"
                       /\ wh_outcome' = "result"
                       /\ UNCHANGED wh_index
                  ELSE /\ wh_index' = wh_index + 1
                       /\ UNCHANGED <<wh_pc, wh_outcome>>
               /\ UNCHANGED wh_exhausted
         [] outcome = "retried_error" ->
               IF LastAttempt(wh_attempt)
               THEN \* re-raised: the except clause of the chunked run
                    /\ wh_exhausted' = wh_exhausted \cup {wh_index}
                    /\ wh_pc' = "fallback"
                    /\ UNCHANGED <<wh_index, wh_attempt, wh_outcome>>
               ELSE \* sleep, then the next attempt
                    /\ wh_attempt' = wh_attempt + 1
                    /\ UNCHANGED <<wh_pc, wh_index, wh_exhausted, wh_outcome>>
         [] outcome = "other_error" ->
               \* not caught by the retry loop: the except clause at once
               /\ wh_pc' = "fallback"
               /\ UNCHANGED <<wh_index, wh_attempt, wh_exhausted, wh_outcome>>
    /\ UNCHANGED <<wh_total, wh_fallback>>
    /\ UNCHANGED <<chunkVars, loadVars, jobVars, batchVars, timeVars, wsVars,
                   pubVars, moreVars>>

\* "except Exception: ... return await self.transcribe_audio(audio_path...)":
\* one backend call on the whole file, without retries
WhFallback(ok) ==
    /\ wh_pc = "fallback"
    /\ wh_fallback' = wh_fallback + 1
    /\ wh_pc' = "done"
    /\ wh_outcome' = IF ok THEN "result" ELSE "raised"
    /\ UNCHANGED <<wh_total, wh_index, wh_attempt, wh_calls, wh_exhausted>>
    /\ UNCHANGED <<chunkVars, loadVars, jobVars, batchVars, timeVars, wsVars,
                   pubVars, moreVars>>

InitWhisper ==
    /\ ChunkIdle
    /\ LoadOnly
    /\ JobOnly
    /\ BatchIdle
    /\ ExtIdle

NextWhisper ==
    \/ \E n \in WhChunks : WhSplit(n)
    \/ \E outcome \in BackendOutcomes : WhAttempt(outcome)
    \/ \E ok \in BOOLEAN : WhFallback(ok)

SpecWhisper == InitWhisper /\ [][NextWhisper]_vars

\* --------------------------------------------------------------------------
\* C14  Retries
\* --------------------------------------------------------------------------
\* C14: a chunk is re-attempted at most 2 times (at most 3 backend calls for
\* it); once every attempt of a chunk has failed no further backend call is
\* made for its audio and the job ends Failed.
C14_RetriesThenFailed ==
    /\ \A c \in WhChunks : wh_calls[c] <= 3
    /\ wh_exhausted # {} =>
          /\ wh_fallback = 0
          /\ wh_pc = "done" => wh_outcome = "raised"

\* --------------------------------------------------------------------------
\* api/websocket.py handle_transcribe_request: the handler coroutine and the
\* send_message tasks its progress_callback creates, on one event loop.
\* A task created with asyncio.create_task waits in the loop's ready queue
\* (first in, first out) and runs only while the handler is suspended; a
\* send writes its frame in the step in which it runs.
\* --------------------------------------------------------------------------
MaxWsEvents == 6

\* the RESULT or ERROR message that ends the request
FinalMessage == 0

\* the request is accepted; process_video_url starts
WsBegin ==
    /\ ws_pc = "idle"
    /\ ws_pc' = "running"
    /\ UNCHANGED <<ws_suspended, ws_ready, ws_delivered, ws_seq>>
    /\ UNCHANGED <<chunkVars, loadVars, jobVars, batchVars, timeVars,
                   whisperVars, pubVars, moreVars>>

\* progress_callback: asyncio.create_task(ws_manager.send_message(...))
WsProgress ==
    /\ ws_pc = "running"
    /\ ~ws_suspended
    /\ ws_seq < MaxWsEvents
    /\ ws_seq' = ws_seq + 1
    /\ ws_ready' = Append(ws_ready, ws_seq + 1)
    /\ UNCHANGED <<ws_pc, ws_suspended, ws_delivered>>
    /\ UNCHANGED <<chunkVars, loadVars, jobVars, batchVars, timeVars,
                   whisperVars, pubVars, moreVars>>

\* the pipeline awaits the parser, the download or the transcriber
WsAwait ==
    /\ ws_pc = "running"
    /\ ~ws_suspended
    /\ ws_suspended' = TRUE
    /\ UNCHANGED <<ws_pc, ws_ready, ws_delivered, ws_seq>>
    /\ UNCHANGED <<chunkVars, loadVars, jobVars, batchVars, timeVars,
                   whisperVars, pubVars, moreVars>>

\* the loop runs the oldest waiting send_message task: websocket.send_text
WsRunTask ==
    /\ ws_suspended \/ ws_pc = "done"
    /\ ws_ready # << >>
    /\ ws_delivered' = Append(ws_delivered, Head(ws_ready))
    /\ ws_ready' = Tail(ws_ready)
    /\ UNCHANGED <<ws_pc, ws_suspended, ws_seq>>
    /\ UNCHANGED <<chunkVars, loadVars, jobVars, batchVars, timeVars,
                   whisperVars, pubVars, moreVars>>

\* the awaited operation has finished: the handler's wake-up was queued
\* behind the tasks created before it suspended
WsResume ==
    /\ ws_pc = "running"
    /\ ws_suspended
    /\ ws_ready = << >>
    /\ ws_suspended' = FALSE
    /\ UNCHANGED <<ws_pc, ws_ready, ws_delivered, ws_seq>>
    /\ UNCHANGED <<chunkVars, loadVars, jobVars, batchVars, timeVars,
                   whisperVars, pubVars, moreVars>>

\* process_video_url returned or raised: the handler itself awaits
\* ws_manager.send_message(RESULT or ERROR), which writes at once
WsFinish ==
    /\ ws_pc = "running"
    /\ ~ws_suspended
    /\ ws_delivered' = Append(ws_delivered, FinalMessage)
    /\ ws_pc' = "done"
    /\ UNCHANGED <<ws_suspended, ws_ready, ws_seq>>
    /\ UNCHANGED <<chunkVars, loadVars, jobVars, batchVars, timeVars,
                   whisperVars, pubVars, moreVars>>

InitWs ==
    /\ ChunkIdle
    /\ LoadOnly
    /\ JobOnly
    /\ BatchIdle
    /\ ExtIdle

NextWs ==
    \/ WsBegin
    \/ WsProgress
    \/ WsAwait
    \/ WsRunTask
    \/ WsResume
    \/ WsFinish

SpecWs == InitWs /\ [][NextWs]_vars

\* --------------------------------------------------------------------------
\* C19  Event order within a subscription
\* --------------------------------------------------------------------------
\* C19: the messages of a job reach the socket in the order the pipeline
\* emitted them, and the final RESULT or ERROR message is delivered after
\* every progress message of the job.
C19_DeliveredInOrder ==
    /\ \A a, b \in 1..Len(ws_delivered) :
          (a < b /\ ws_delivered[a] # FinalMessage
                 /\ ws_delivered[b] # FinalMessage)
             => ws_delivered[a] < ws_delivered[b]
    /\ \A a \in 1..Len(ws_delivered) :
          ws_delivered[a] = FinalMessage =>
             /\ a = Len(ws_delivered)
             /\ ws_ready = << >>

\* --------------------------------------------------------------------------
\* WebSocketManager.send_to_task_subscribers, awaited by
\* broadcast_task_progress: one message to the subscribers of one task
\* --------------------------------------------------------------------------
NumSubscribers == 3
Subscribers == 1..NumSubscribers

\* the orders in which "for websocket in subscribers" can visit a set
Orders(set) ==
    {order \in [1..Cardinality(set) -> set] :
        \A a, b \in 1..Cardinality(set) : a # b => order[a] # order[b]}

\* "if task_id not in self.task_subscriptions: return", else the copy of the
\* set and the start of the loop
Publish(order) ==
    /\ pub_pc = "idle"
    /\ IF task_subscribers = {}
       THEN /\ pub_pc' = "done"
            /\ UNCHANGED <<pub_order, pub_cursor>>
       ELSE /\ order \in Orders(task_subscribers)
            /\ pub_order' = order
            /\ pub_cursor' = 1
            /\ pub_pc' = "sending"
    /\ UNCHANGED <<task_subscribers, pub_stalled, pub_received,
                   pub_disconnected>>
    /\ UNCHANGED <<chunkVars, loadVars, jobVars, batchVars, timeVars,
                   whisperVars, wsVars, moreVars>>

\* "await websocket.send_text(...)" for the subscriber at the cursor: the
\* await ends once the socket has taken the write, or the send raises and the
\* subscriber is put on the disconnected set; then the loop moves on
SendToSubscriber(raises) ==
    /\ pub_pc = "sending"
    /\ pub_cursor <= Len(pub_order)
    /\ pub_order[pub_cursor] \notin pub_stalled
    /\ IF raises
       THEN /\ pub_disconnected' = pub_disconnected \cup {pub_order[pub_cursor]}
            /\ UNCHANGED pub_received
       ELSE /\ pub_received' = pub_received \cup {pub_order[pub_cursor]}
            /\ UNCHANGED pub_disconnected
    /\ pub_cursor' = pub_cursor + 1
    /\ UNCHANGED <<task_subscribers, pub_pc, pub_order, pub_stalled>>
    /\ UNCHANGED <<chunkVars, loadVars, jobVars, batchVars, timeVars,
                   whisperVars, wsVars, moreVars>>

\* after the loop: self.disconnect(websocket) for every failed subscriber
FinishPublish ==
    /\ pub_pc = "sending"
    /\ pub_cursor > Len(pub_order)
    /\ task_subscribers' = task_subscribers \ pub_disconnected
    /\ pub_pc' = "done"
    /\ UNCHANGED <<pub_order, pub_cursor, pub_stalled, pub_received,
                   pub_disconnected>>
    /\ UNCHANGED <<chunkVars, loadVars, jobVars, batchVars, timeVars,
                   whisperVars, wsVars, moreVars>>

\* a subscriber that was not reading its socket reads again
SubscriberDrains(sub) ==
    /\ sub \in pub_stalled
    /\ pub_stalled' = pub_stalled \ {sub}
    /\ UNCHANGED <<task_subscribers, pub_pc, pub_order, pub_cursor,
                   pub_received, pub_disconnected>>
    /\ UNCHANGED <<chunkVars, loadVars, jobVars, batchVars, timeVars,
                   whisperVars, wsVars, moreVars>>

\* some clients have subscribed to the task (subscribe_to_task); some of
\* them are not reading their socket
InitPublish ==
    /\ ChunkIdle
    /\ LoadOnly
    /\ JobOnly
    /\ BatchIdle
    /\ TimeIdle
    /\ WhisperIdle
    /\ WsIdle
    /\ MoreIdle
    /\ task_subscribers \in SUBSET Subscribers
    /\ pub_stalled \in SUBSET task_subscribers
    /\ pub_pc = "idle"
    /\ pub_order = << >>
    /\ pub_cursor = 0
    /\ pub_received = {}
    /\ pub_disconnected = {}

NextPublish ==
    \/ \E order \in UNION {Orders(set) : set \in SUBSET Subscribers} :
          Publish(order)
    \/ \E raises \in BOOLEAN : SendToSubscriber(raises)
    \/ FinishPublish
    \/ \E sub \in Subscribers : SubscriberDrains(sub)

SpecPublish == InitPublish /\ [][NextPublish]_vars

\* --------------------------------------------------------------------------
\* C20  Publishing does not wait for subscribers
\* --------------------------------------------------------------------------
\* C20: publishing a progress event never makes the publisher wait for a
\* subscriber: the publisher is never held at a subscriber whose send does
\* not complete, and no other subscriber's delivery waits behind it.
C20_PublisherNeverWaits ==
    (pub_pc = "sending" /\ pub_cursor <= Len(pub_order)) =>
        pub_order[pub_cursor] \notin pub_stalled

\* --------------------------------------------------------------------------
\* C25  The short tail of split
\* --------------------------------------------------------------------------
\* scenario S2: a 900 s audio, chunk_seconds = 300, overlap_seconds = 2
S2Input == [duration |-> 900, chunk_duration |-> 300, overlap |-> 2]

S2Chunks ==
    << [path |-> 0, start |-> 0,   end |-> 300],
       [path |-> 1, start |-> 298, end |-> 598],
       [path |-> 2, start |-> 596, end |-> 900] >>

\* chunking was triggered with a chunk length of at least 300 s
SplitWithFullChunks ==
    /\ IsSome(chunks)
    /\ should_chunk(chunker)
    /\ chunker.chunk_duration >= MinChunkLen

\* the except clause of split_audio returned the original file alone
FellBackToOriginal == Len(Val(chunks)) = 1

\* C25: when the last chunk would be shorter than 300 s it is merged into the
\* previous chunk, so the last chunk returned ends exactly at the audio
\* duration; for 900 s, chunk_seconds 300 and overlap 2 the chunks are
\* [0,300], [298,598], [596,900].
C25_TailMergedIntoLast ==
    SplitWithFullChunks =>
        /\ Len(Val(chunks)) >= 1
        /\ Val(chunks)[Len(Val(chunks))].end = chunker.duration
        /\ (/\ chunker.duration = S2Input.duration
            /\ chunker.chunk_duration = S2Input.chunk_duration
            /\ chunker.overlap = S2Input.overlap
            /\ ~FellBackToOriginal) => Val(chunks) = S2Chunks

\* --------------------------------------------------------------------------
\* C26  Which segments merge drops
\* --------------------------------------------------------------------------
\* segment k of chunk i is not in the merged segment list (segments are told
\* apart by their text, which is unique)
DroppedByMerge(cr, i, k, result) ==
    ~ \E m \in 1..Len(result.segments) :
          result.segments[m].text = cr[i].segments[k].text

\* the first segment of a later chunk begins inside the overlap region: its
\* absolute start is earlier than the absolute end of the chunk before
BeginsInOverlap(cr, i, k) ==
    /\ i > 1
    /\ k = 1
    /\ cr[i].start_time + cr[i].segments[k].start < cr[i - 1].end_time

\* C26: merge drops the first segment of a later chunk iff its absolute start
\* is earlier than the previous chunk's absolute end; every other segment of
\* every chunk is in the merged output.
C26_DropsOnlyOverlapping ==
    [][(merged = None /\ IsSome(merged')) =>
          \A i \in 1..Len(chunk_results) :
             \A k \in 1..Len(chunk_results[i].segments) :
                DroppedByMerge(chunk_results, i, k, Val(merged'))
                    <=> BeginsInOverlap(chunk_results, i, k)]_vars

\* --------------------------------------------------------------------------
\* C29  The merged text holds every chunk's text
\* --------------------------------------------------------------------------
Range(seq) == {seq[k] : k \in 1..Len(seq)}

\* the tokens of chunk i that are not those of a first segment beginning
\* inside the overlap region
TextKept(cr, i) ==
    Range(cr[i].text)
        \ UNION {Range(cr[i].segments[k].text) :
                    k \in {x \in 1..Len(cr[i].segments) :
                              BeginsInOverlap(cr, i, x)}}

\* C29: the merged text contains the text recognized for every chunk, in
\* chunk order; a chunk after the first with text and an empty segment list
\* still contributes its text.
C29_TextOfEveryChunk ==
    [][(merged = None /\ IsSome(merged')) =>
          /\ \A i \in 1..Len(chunk_results) :
                TextKept(chunk_results, i) \subseteq Range(Val(merged').text)
          /\ NonDecreasing(Val(merged').text)]_vars

\* --------------------------------------------------------------------------
\* C30  split returns at least one chunk
\* --------------------------------------------------------------------------
\* C30: whenever chunking is triggered and chunk_seconds > overlap_seconds
\* >= 0 (chunk_seconds below 300 included), split returns at least one chunk.
C30_SplitNeverEmpty ==
    (IsSome(chunks) /\ should_chunk(chunker)
        /\ chunker.chunk_duration > chunker.overlap /\ chunker.overlap >= 0)
    => Len(Val(chunks)) >= 1

\* --------------------------------------------------------------------------
\* C27  The per-status index
\* --------------------------------------------------------------------------
Occurrences(seq, x) == Cardinality({k \in 1..Len(seq) : seq[k] = x})

\* TaskService.get_tasks_by_status: the stored tasks listed under a status
get_tasks_by_status(ts, tbs, status) ==
    SelectSeq(tbs[status], LAMBDA task_id : task_id \in DOMAIN ts)

ActiveStatuses == {"pending", "extracting", "transcribing"}

\* C27: the per-status index lists every stored job exactly once, under the
\* job's current status, so that the status-filtered listings and the
\* active-job count agree with the job records.
C27_IndexMatchesRecords ==
    /\ \A j \in DOMAIN tasks :
          \A st \in Statuses :
             Occurrences(tasks_by_status[st], j)
                = IF tasks[j].status = st THEN 1 ELSE 0
    /\ \A st \in Statuses :
          Range(get_tasks_by_status(tasks, tasks_by_status, st))
             = {j \in DOMAIN tasks : tasks[j].status = st}
    /\ Len(get_active_tasks(tasks, tasks_by_status))
          = Cardinality({j \in DOMAIN tasks :
                            tasks[j].status \in ActiveStatuses})

\* --------------------------------------------------------------------------
\* C28  Every load_model call returns
\* --------------------------------------------------------------------------
\* The event loops run every coroutine that can run and the executor runs
\* every job handed to it: some step is taken as long as one is possible.
SpecLoadLive == InitLoad /\ [][NextLoad]_vars /\ WF_vars(NextLoad)

\* C28: when several coroutines call load_model on a transcriber whose model
\* is not loaded, every call eventually returns (or raises): no caller waits
\* for model_lock forever while its holder is suspended in its await.
C28_EveryCallReturns ==
    <>(\A c \in Callers : lpc[c] \in {"done", "failed"})

\* --------------------------------------------------------------------------
\* TaskService.cleanup_old_tasks (VideoTranscriptionEngine.cleanup_old_tasks
\* applies the same two tests to the engine's own dicts): job and batch
\* records on a clock that counts hours
\* --------------------------------------------------------------------------
MaxNow == 2
MaxRetention == 1
MaxSweeps == 1

\* the statuses a job is moved to after it was added
LaterStatuses == {"transcribing", "completed", "failed", "cancelled"}

\* remove_task: the store after "del self.tasks[task_id]"
RemoveTasks(ts, removed) ==
    [x \in (DOMAIN ts) \ removed |-> ts[x]]

\* remove_task: the index after the remove under the task's status, for
\* every task of the list, in order
RECURSIVE IndexRemoveAll(_, _, _)
IndexRemoveAll(tbs, ts, to_remove) ==
    IF to_remove = << >> THEN tbs
    ELSE IndexRemoveAll(
            [tbs EXCEPT ![ts[Head(to_remove)].status] =
                            RemoveFirst(@, Head(to_remove))],
            ts, Tail(to_remove))

\* the ids of a set as a list in ascending order (dict insertion order: the
\* ids are handed out in that order)
RECURSIVE Ascending(_)
Ascending(set) ==
    IF set = {} THEN << >>
    ELSE LET low == CHOOSE x \in set : \A y \in set : x <= y
         IN << low >> \o Ascending(set \ {low})

\* "if task_info.completed_at:" and "hours_diff > older_than_hours"
TasksToRemove(ts, times, current_time, older_than_hours) ==
    {j \in DOMAIN ts :
        /\ ts[j].completed_at
        /\ current_time - times[j] > older_than_hours}

\* "if batch_info.created_at:" and "hours_diff > older_than_hours"
BatchesToRemove(bs, created, current_time, older_than_hours) ==
    {b \in DOMAIN bs : current_time - created[b] > older_than_hours}

\* add_task at the current time (task ids are fresh: an id that a sweep may
\* have removed is not handed out again)
AddTaskNow(j) ==
    /\ j \notin DOMAIN tasks
    /\ sweeps = 0
    /\ tasks' = AddTask(tasks, j, NewTaskInfo)
    /\ tasks_by_status' = IndexAdd(tasks_by_status, NewTaskInfo.status, j)
    /\ UNCHANGED <<pc, events, files, semaphore, max_concurrent, job_chunks,
                   cancel_req, api_calls, status_reports>>
    /\ UNCHANGED <<chunkVars, loadVars, batchVars, timeVars, whisperVars,
                   wsVars, pubVars, evictVars, cleanVars, connVars, routeVars>>

\* update_task_status at the current time: completed_at = datetime.now() for
\* COMPLETED and FAILED
UpdateTaskStatusNow(j, status) ==
    /\ j \in DOMAIN tasks
    /\ tasks[j].status \notin TerminalStatuses
    /\ tasks' = [tasks EXCEPT ![j] = UpdatedTask(@, status, "none", 0)]
    /\ tasks_by_status' = IndexMove(tasks_by_status, tasks[j].status, status, j)
    /\ completed_time' =
          IF status \in {"completed", "failed"}
          THEN [completed_time EXCEPT ![j] = now]
          ELSE completed_time
    /\ UNCHANGED <<now, batch_created, retention, sweeps>>
    /\ UNCHANGED <<pc, events, files, semaphore, max_concurrent, job_chunks,
                   cancel_req, api_calls, status_reports>>
    /\ UNCHANGED <<chunkVars, loadVars, batchVars, timeVars, whisperVars,
                   wsVars, pubVars, cleanVars, connVars, routeVars>>

\* create_batch_task at the current time (batch ids are fresh as well)
CreateBatchTaskNow(b, total_count) ==
    /\ b \notin DOMAIN batch_tasks
    /\ sweeps = 0
    /\ batch_tasks' = [x \in (DOMAIN batch_tasks) \cup {b} |->
                          IF x = b THEN NewBatchInfo(total_count)
                          ELSE batch_tasks[x]]
    /\ batch_created' = [x \in (DOMAIN batch_tasks) \cup {b} |->
                            IF x = b THEN now ELSE batch_created[x]]
    /\ UNCHANGED <<now, completed_time, retention, sweeps>>
    /\ UNCHANGED <<batch_updates, engine_batch, url_pc, url_sem, url_limit>>
    /\ UNCHANGED <<chunkVars, loadVars, jobVars, timeVars, whisperVars,
                   wsVars, pubVars, cleanVars, connVars, routeVars>>

\* update_batch_task for one job of the batch that completed or failed
BatchJobEnds(b, failed) ==
    /\ b \in DOMAIN batch_tasks
    /\ batch_tasks[b].pending_count > 0
    /\ batch_tasks' =
          [batch_tasks EXCEPT
              ![b] = IF failed THEN BatchAfterUpdate(@, 0, 1)
                     ELSE BatchAfterUpdate(@, 1, 0)]
    /\ UNCHANGED <<batch_updates, engine_batch, url_pc, url_sem, url_limit>>
    /\ UNCHANGED <<chunkVars, loadVars, jobVars, extVars>>

\* an hour passes
HourPasses ==
    /\ now < MaxNow
    /\ now' = now + 1
    /\ UNCHANGED <<completed_time, batch_created, retention, sweeps>>
    /\ UNCHANGED <<chunkVars, loadVars, jobVars, batchVars, timeVars,
                   whisperVars, wsVars, pubVars, cleanVars, connVars,
                   routeVars>>

\* cleanup_old_tasks(older_than_hours)
CleanupOldTasks(older_than_hours) ==
    /\ sweeps < MaxSweeps
    /\ sweeps' = sweeps + 1
    /\ retention' = older_than_hours
    /\ LET tasks_to_remove ==
               TasksToRemove(tasks, completed_time, now, older_than_hours)
           batches_to_remove ==
               BatchesToRemove(batch_tasks, batch_created, now,
                               older_than_hours)
       IN /\ tasks' = RemoveTasks(tasks, tasks_to_remove)
          /\ tasks_by_status' =
                IndexRemoveAll(tasks_by_status, tasks,
                               Ascending(tasks_to_remove))
          /\ batch_tasks' =
                [b \in (DOMAIN batch_tasks) \ batches_to_remove |->
                    batch_tasks[b]]
          /\ batch_created' =
                [b \in (DOMAIN batch_tasks) \ batches_to_remove |->
                    batch_created[b]]
    /\ UNCHANGED <<now, completed_time>>
    /\ UNCHANGED <<pc, events, files, semaphore, max_concurrent, job_chunks,
                   cancel_req, api_calls, status_reports>>
    /\ UNCHANGED <<batch_updates, engine_batch, url_pc, url_sem, url_limit>>
    /\ UNCHANGED <<chunkVars, loadVars, timeVars, whisperVars, wsVars,
                   pubVars, cleanVars, connVars, routeVars>>

InitEvict ==
    /\ ChunkIdle
    /\ LoadOnly
    /\ JobOnly
    /\ BatchIdle
    /\ ExtIdle

NextEvict ==
    \/ \E j \in Jobs : AddTaskNow(j)
    \/ \E j \in Jobs, status \in LaterStatuses : UpdateTaskStatusNow(j, status)
    \/ \E b \in Batches, total_count \in 1..MaxTotal :
          CreateBatchTaskNow(b, total_count)
    \/ \E b \in Batches, failed \in BOOLEAN : BatchJobEnds(b, failed)
    \/ HourPasses
    \/ \E older_than_hours \in 0..MaxRetention :
          CleanupOldTasks(older_than_hours)

SpecEvict == InitEvict /\ [][NextEvict]_vars

\* --------------------------------------------------------------------------
\* C21  Record eviction
\* --------------------------------------------------------------------------
\* C21: an eviction sweep with retention R removes every job record whose
\* completion time is older than R and no job record that has not completed
\* or that completed less than R ago; a batch record that still has pending
\* jobs is never evicted.
C21_SweepRemovesOnlyOldCompleted ==
    [][sweeps' # sweeps =>
          /\ \A j \in DOMAIN tasks :
                (j \notin DOMAIN tasks')
                    <=> (/\ tasks[j].completed_at
                         /\ now - completed_time[j] > retention')
          /\ \A b \in DOMAIN batch_tasks :
                batch_tasks[b].pending_count > 0 => b \in DOMAIN batch_tasks']_vars

\* --------------------------------------------------------------------------
\* SenseVoiceTranscriber._clean_special_tokens
\* A text is a sequence of symbols: "<|" and "|>" (the two brackets of a
\* meta-token), words made of letters ("zh" is a name of the language list,
\* "x" a letter run that is in none of the three lists) and the blank.
\* --------------------------------------------------------------------------
MaxTextLen == 6

Open == "<|"
Close == "|>"
Blank == " "
Letters == {"zh", "x"}
Symbols == {Open, Close, Blank} \cup Letters

Texts == UNION {[1..n -> Symbols] : n \in 0..MaxTextLen}

\* the four entries of `patterns`, in order: the language, emotion and event
\* lists and the general pattern <\|[A-Za-z_]+\|>
Patterns ==
    << [any |-> FALSE, names |-> {<< "zh" >>}],
       [any |-> FALSE, names |-> {<< "HAPPY" >>}],
       [any |-> FALSE, names |-> {<< "Speech" >>}],
       [any |-> TRUE,  names |-> {}] >>

\* the length of the run of letters at the head of s
RECURSIVE LetterRun(_)
LetterRun(s) ==
    IF s = << >> \/ Head(s) \notin Letters THEN 0
    ELSE 1 + LetterRun(Tail(s))

\* the length of the match of the pattern at the head of s, 0 for no match:
\* "<|", a name the pattern accepts, "|>"
MatchLen(s, pattern) ==
    IF s = << >> \/ Head(s) # Open THEN 0
    ELSE LET run == LetterRun(Tail(s)) IN
         IF /\ run >= 1
            /\ Len(s) >= run + 2
            /\ s[run + 2] = Close
            /\ (pattern.any \/ SubSeq(s, 2, run + 1) \in pattern.names)
         THEN run + 2
         ELSE 0

\* re.sub(pattern, '', s): one pass from the left over the matches that do
\* not overlap
RECURSIVE Sub(_, _)
Sub(s, pattern) ==
    IF s = << >> THEN << >>
    ELSE IF MatchLen(s, pattern) > 0
         THEN Sub(SubSeq(s, MatchLen(s, pattern) + 1, Len(s)), pattern)
         ELSE << Head(s) >> \o Sub(Tail(s), pattern)

\* "for pattern in patterns: cleaned_text = re.sub(pattern, '', cleaned_text)"
RECURSIVE SubAll(_, _)
SubAll(s, patterns) ==
    IF patterns = << >> THEN s
    ELSE SubAll(Sub(s, Head(patterns)), Tail(patterns))

\* re.sub(r'\s+', ' ', s)
RECURSIVE CollapseBlanks(_)
CollapseBlanks(s) ==
    IF Len(s) <= 1 THEN s
    ELSE IF s[1] = Blank /\ s[2] = Blank THEN CollapseBlanks(Tail(s))
    ELSE << Head(s) >> \o CollapseBlanks(Tail(s))

\* str.strip()
RECURSIVE Strip(_)
Strip(s) ==
    IF s = << >> THEN s
    ELSE IF Head(s) = Blank THEN Strip(Tail(s))
    ELSE IF s[Len(s)] = Blank THEN Strip(SubSeq(s, 1, Len(s) - 1))
    ELSE s

\* _clean_special_tokens(text)
clean(enabled, t) ==
    IF t = << >> \/ ~enabled THEN t
    ELSE Strip(CollapseBlanks(SubAll(t, Patterns)))

Clean ==
    /\ cleaned = None
    /\ cleaned' = Some(clean(clean_special_tokens, text))
    /\ UNCHANGED <<clean_special_tokens, text, cleaned_again>>
    /\ UNCHANGED <<chunkVars, loadVars, jobVars, batchVars, timeVars,
                   whisperVars, wsVars, pubVars, evictVars, connVars,
                   routeVars>>

\* the value returned is cleaned once more
CleanAgain ==
    /\ IsSome(cleaned)
    /\ cleaned_again = None
    /\ cleaned_again' = Some(clean(clean_special_tokens, Val(cleaned)))
    /\ UNCHANGED <<clean_special_tokens, text, cleaned>>
    /\ UNCHANGED <<chunkVars, loadVars, jobVars, batchVars, timeVars,
                   whisperVars, wsVars, pubVars, evictVars, connVars,
                   routeVars>>

InitClean ==
    /\ ChunkIdle
    /\ LoadOnly
    /\ JobOnly
    /\ BatchIdle
    /\ TimeIdle
    /\ WhisperIdle
    /\ WsIdle
    /\ PubIdle
    /\ EvictIdle
    /\ ConnIdle
    /\ RouteIdle
    /\ clean_special_tokens \in BOOLEAN
    /\ text \in Texts
    /\ cleaned = None
    /\ cleaned_again = None

NextClean == Clean \/ CleanAgain

SpecClean == InitClean /\ [][NextClean]_vars

\* --------------------------------------------------------------------------
\* C22  clean is idempotent and leaves no meta-token
\* --------------------------------------------------------------------------
\* s holds a token of the shape <|X|>
HasToken(s) ==
    \E i \in 1..Len(s) :
        MatchLen(SubSeq(s, i, Len(s)), [any |-> TRUE, names |-> {}]) > 0

\* C22: with cleaning enabled, clean(t) contains no token of the shape <|X|>
\* and clean(clean(t)) = clean(t), for every text t.
C22_CleanIdempotent ==
    clean_special_tokens =>
        /\ IsSome(cleaned) => ~HasToken(Val(cleaned))
        /\ IsSome(cleaned_again) => Val(cleaned_again) = Val(cleaned)

\* --------------------------------------------------------------------------
\* WebSocketManager: connect, subscribe_to_task, unsubscribe_from_task and
\* disconnect on the manager's two collections
\* --------------------------------------------------------------------------
NumSockets == 2
NumTopics == 2

Sockets == 1..NumSockets
\* the task ids clients subscribe to
Topics == 1..NumTopics

\* the tasks whose subscriber set holds the socket
SubscribedTo(subs, websocket) ==
    {task_id \in DOMAIN subs : websocket \in subs[task_id]}

\* subscribe_to_task: the dict after the set was created if missing and the
\* socket added
AfterSubscribe(subs, websocket, task_id) ==
    [t \in (DOMAIN subs) \cup {task_id} |->
        IF t = task_id
        THEN (IF t \in DOMAIN subs THEN subs[t] ELSE {}) \cup {websocket}
        ELSE subs[t]]

\* unsubscribe_from_task: discard, then "del" when the set is empty
AfterUnsubscribe(subs, websocket, task_id) ==
    IF task_id \notin DOMAIN subs THEN subs
    ELSE [t \in {x \in DOMAIN subs :
                    x # task_id \/ subs[x] \ {websocket} # {}} |->
             IF t = task_id THEN subs[t] \ {websocket} ELSE subs[t]]

DropFrom_KeepsEmpty(subs, websocket) ==
    [t \in DOMAIN subs |-> subs[t] \ {websocket}]

\* disconnect, the loop over list(self.task_subscriptions.items()):
\* subscribers.discard(websocket), and "del" when the set is empty
DropFrom(subs, websocket) ==
    [t \in {x \in DOMAIN subs : subs[x] \ {websocket} # {}} |->
        subs[t] \ {websocket}]

\* connect: websocket.accept() went through, or it raised and connect
\* returned False with nothing recorded
Connect(websocket, accepted) ==
    /\ active_connections' =
          IF accepted THEN active_connections \cup {websocket}
          ELSE active_connections
    /\ last_op' = [op |-> "connect", socket |-> websocket,
                   tasks |-> SubscribedTo(task_subscriptions, websocket),
                   raised |-> FALSE]
    /\ UNCHANGED task_subscriptions
    /\ UNCHANGED <<chunkVars, loadVars, jobVars, batchVars, timeVars,
                   whisperVars, wsVars, pubVars, evictVars, cleanVars,
                   routeVars>>

SubscribeToTask(websocket, task_id) ==
    /\ task_subscriptions' =
          AfterSubscribe(task_subscriptions, websocket, task_id)
    /\ last_op' = [op |-> "subscribe", socket |-> websocket,
                   tasks |-> SubscribedTo(task_subscriptions, websocket),
                   raised |-> FALSE]
    /\ UNCHANGED active_connections
    /\ UNCHANGED <<chunkVars, loadVars, jobVars, batchVars, timeVars,
                   whisperVars, wsVars, pubVars, evictVars, cleanVars,
                   routeVars>>

UnsubscribeFromTask(websocket, task_id) ==
    /\ task_subscriptions' =
          AfterUnsubscribe(task_subscriptions, websocket, task_id)
    /\ last_op' = [op |-> "unsubscribe", socket |-> websocket,
                   tasks |-> SubscribedTo(task_subscriptions, websocket),
                   raised |-> FALSE]
    /\ UNCHANGED active_connections
    /\ UNCHANGED <<chunkVars, loadVars, jobVars, batchVars, timeVars,
                   whisperVars, wsVars, pubVars, evictVars, cleanVars,
                   routeVars>>

\* disconnect: set.discard, the loop and dict.pop(websocket, None) raise
\* nothing, for a socket that is connected or not, subscribed or not; the
\* whole body is inside "try ... except Exception" which only logs
Disconnect(websocket) ==
    /\ active_connections' = active_connections \ {websocket}
    /\ task_subscriptions' = DropFrom(task_subscriptions, websocket)
    /\ last_op' = [op |-> "disconnect", socket |-> websocket,
                   tasks |-> SubscribedTo(task_subscriptions, websocket),
                   raised |-> FALSE]
    /\ UNCHANGED <<chunkVars, loadVars, jobVars, batchVars, timeVars,
                   whisperVars, wsVars, pubVars, evictVars, cleanVars,
                   routeVars>>

InitConn ==
    /\ ChunkIdle
    /\ LoadOnly
    /\ JobOnly
    /\ BatchIdle
    /\ ExtIdle

NextConn ==
    \E websocket \in Sockets :
        \/ \E accepted \in BOOLEAN : Connect(websocket, accepted)
        \/ \E task_id \in Topics : SubscribeToTask(websocket, task_id)
        \/ \E task_id \in Topics : UnsubscribeFromTask(websocket, task_id)
        \/ Disconnect(websocket)

SpecConn == InitConn /\ [][NextConn]_vars

\* --------------------------------------------------------------------------
\* C23  Dropping a subscriber
\* --------------------------------------------------------------------------
\* C23: after a subscriber is dropped, whatever connect, subscribe and
\* unsubscribe operations came before, it is in no job's subscriber set and
\* not among the active connections, no job is left with an empty subscriber
\* set, and the operation raised no error.
C23_DroppedEverywhere ==
    last_op.op = "disconnect" =>
        /\ last_op.socket \notin active_connections
        /\ \A task_id \in DOMAIN task_subscriptions :
              /\ last_op.socket \notin task_subscriptions[task_id]
              /\ task_subscriptions[task_id] # {}
        /\ ~last_op.raised

\* the dropped socket was subscribed to two tasks: the set of one of them is
\* gone with it, the other keeps another subscriber
C23_Witness ==
    /\ last_op.op = "disconnect"
    /\ \E gone, kept \in last_op.tasks :
          /\ gone \notin DOMAIN task_subscriptions
          /\ kept \in DOMAIN task_subscriptions
    /\ active_connections # {}

\* --------------------------------------------------------------------------
\* api/routes/transcribe.py transcribe_batch: one POST /batch request, from
\* the two checks to the response
\* --------------------------------------------------------------------------
MaxFiles == 21
MaxLimit == 11

TooManyFiles_Unchecked(n) == FALSE

\* "if len(files) > 20"
TooManyFiles(n) == n > 20

\* "1 <= max_concurrent <= 10"
ConcurrencyInRange(limit) == 1 <= limit /\ limit <= 10

\* the request reaches the handler (files is a required field: at least one)
ReceiveBatch(n, limit) ==
    /\ route_pc = "idle"
    /\ request' = [files |-> n, max_concurrent |-> limit]
    /\ route_pc' = "validate"
    /\ UNCHANGED <<saved_files, files_written, jobs_created, response>>
    /\ UNCHANGED <<chunkVars, loadVars, jobVars, batchVars, timeVars,
                   whisperVars, wsVars, pubVars, evictVars, cleanVars,
                   connVars>>

\* the two checks at the top of the try block: HTTPException(400), which the
\* "except HTTPException" clause re-raises after unlinking saved_files
ValidateRequest ==
    /\ route_pc = "validate"
    /\ IF TooManyFiles(request.files)
          \/ ~ConcurrencyInRange(request.max_concurrent)
       THEN /\ response' = 400
            /\ route_pc' = "done"
       ELSE /\ route_pc' = "saving"
            /\ UNCHANGED response
    /\ UNCHANGED <<request, saved_files, files_written, jobs_created>>
    /\ UNCHANGED <<chunkVars, loadVars, jobVars, batchVars, timeVars,
                   whisperVars, wsVars, pubVars, evictVars, cleanVars,
                   connVars>>

\* one iteration of "for file in files": the upload is written to temp_dir
\* and validated; an invalid file is unlinked with those saved before it and
\* the request ends with 400
SaveFile(is_valid) ==
    /\ route_pc = "saving"
    /\ Len(saved_files) < request.files
    /\ files_written' = files_written + 1
    /\ IF is_valid
       THEN /\ saved_files' = Append(saved_files, files_written + 1)
            /\ UNCHANGED <<route_pc, response>>
       ELSE /\ response' = 400
            /\ route_pc' = "done"
            /\ UNCHANGED saved_files
    /\ UNCHANGED <<request, jobs_created>>
    /\ UNCHANGED <<chunkVars, loadVars, jobVars, batchVars, timeVars,
                   whisperVars, wsVars, pubVars, evictVars, cleanVars,
                   connVars>>

\* after the loop: ProcessOptions(...) raises (500, no job), or
\* service.transcribe_batch creates one job per saved file and returns (200)
\* or raises (500)
RunBatch(outcome) ==
    /\ route_pc = "saving"
    /\ Len(saved_files) = request.files
    /\ jobs_created' = IF outcome = "bad_options" THEN 0 ELSE Len(saved_files)
    /\ response' = IF outcome = "ok" THEN 200 ELSE 500
    /\ route_pc' = "done"
    /\ UNCHANGED <<request, saved_files, files_written>>
    /\ UNCHANGED <<chunkVars, loadVars, jobVars, batchVars, timeVars,
                   whisperVars, wsVars, pubVars, evictVars, cleanVars,
                   connVars>>

InitRoute ==
    /\ ChunkIdle
    /\ LoadOnly
    /\ JobOnly
    /\ BatchIdle
    /\ ExtIdle

NextRoute ==
    \/ \E n \in 1..MaxFiles, limit \in 0..MaxLimit : ReceiveBatch(n, limit)
    \/ ValidateRequest
    \/ \E is_valid \in BOOLEAN : SaveFile(is_valid)
    \/ \E outcome \in {"ok", "bad_options", "batch_error"} : RunBatch(outcome)

SpecRoute == InitRoute /\ [][NextRoute]_vars

\* --------------------------------------------------------------------------
\* C24  Batch request limits
\* --------------------------------------------------------------------------
\* the request has more than 20 files or a max_concurrent outside 1..10
OverLimits ==
    \/ request.files > 20
    \/ request.max_concurrent < 1
    \/ request.max_concurrent > 10

\* C24: a batch request with more than 20 files, or with max_concurrent
\* outside 1..10, is rejected with HTTP 400 before any uploaded file is saved
\* and before any job is created.
C24_RejectedBeforeSaving ==
    (route_pc # "idle" /\ OverLimits) =>
        /\ files_written = 0
        /\ jobs_created = 0
        /\ route_pc = "done" => response = 400

\* a request with an allowed number of files and max_concurrent above 10 was
\* answered with 400
C24_Witness ==
    /\ route_pc = "done"
    /\ request.files <= 20
    /\ request.max_concurrent > 10
    /\ response = 400
    /\ files_written = 0

====
